---- MODULE Spec2Model ----
(***************************************************************************)
(* The WhatTheFlip client (frontend/src/App.tsx): the catalog loader that  *)
(* runs once on mount, the three-stage processing pipeline started by a    *)
(* flyer selection, and the render projection that decides which elements  *)
(* are shown and which clicks reach the handler.                           *)
(*                                                                         *)
(* React state is committed and rendered at the end of every event-loop    *)
(* task, so an action is one synchronous run of a handler (from an event   *)
(* or from the resumption of an await to the next await or return)         *)
(* together with the re-render that follows it; the closures of the next   *)
(* task read the committed state.                                          *)
(*                                                                         *)
(* A nullable value is <<>> (null/undefined) or <<v>>.                     *)
(***************************************************************************)
EXTENDS Integers, Sequences, FiniteSets, TLC

VARIABLES
    groceryFlyers,      \* useState<FlippFlyer[]>([])
    isFetchingFlipp,    \* useState<boolean>(false)
    flippError,         \* useState<string | null>(null)
    mealPlan,           \* useState<MealPlan | null>(null)
    isProcessing,       \* useState<boolean>(false)
    processingError,    \* useState<string | null>(null)
    processingMessage,  \* useState<string | null>(null)
    selectedFlyerId,    \* useState<number | null>(null)
    selectedFlyer,      \* useState<FlippFlyer | null>(null)
    loader,             \* position of fetchFlippFlyers: "unmounted", "await", "done"
    catalogRequests,    \* number of catalog requests issued
    sessions,           \* the invocations of handleFlyerSelection that passed its guards,
                        \* by session number: the suspended ones, and the finished ones
                        \* until the next selection begins
    lastEvent           \* the event the last task handled, with what it carried

catalogState == <<groceryFlyers, isFetchingFlipp, flippError, loader, catalogRequests>>
pipelineState == <<mealPlan, isProcessing, processingError, processingMessage,
                   selectedFlyerId, selectedFlyer, sessions>>
vars == <<groceryFlyers, isFetchingFlipp, flippError, mealPlan, isProcessing,
          processingError, processingMessage, selectedFlyerId, selectedFlyer,
          loader, catalogRequests, sessions, lastEvent>>

(***************************************************************************)
(* Bounds                                                                  *)
(***************************************************************************)
\* the longest catalog response
MaxCatalog == 2
\* the number of sessions direct calls of the handler may leave suspended at once
MaxOverlap == 1

(***************************************************************************)
(* Values                                                                  *)
(***************************************************************************)
Null == <<>>
Some(v) == <<v>>

\* JavaScript truthiness of a nullable string: null and "" are falsy
Truthy(s) == s # Null /\ s[1] # ""

\* an event: a click or call with the flyer identifier (0 for null), a response
\* with the session number, the catalog response with its flyers
Event(type, arg) == [type |-> type, arg |-> arg, flyers |-> <<>>]
CatalogEvent(flyers) == [type |-> "catalog", arg |-> 0, flyers |-> flyers]

\* The flyers a catalog response is made of.  Flyer 2 carries "Groceries" as its
\* second tag, flyer 4 has no categories field, flyers 2 and 4 are of one merchant.
FlyerUniverse ==
    { [id |-> 1, merchant |-> "Save-On-Foods", categories |-> Some(<<"Groceries">>)],
      [id |-> 2, merchant |-> "Walmart", categories |-> Some(<<"Pharmacy", "Groceries">>)],
      [id |-> 3, merchant |-> "Best Buy", categories |-> Some(<<"Electronics">>)],
      [id |-> 4, merchant |-> "Walmart", categories |-> Null] }

FlyerIds == {f.id : f \in FlyerUniverse}

\* a catalog snapshot: an ordered sequence of flyers with unique identifiers
Catalogs ==
    UNION { { c \in [1..n -> FlyerUniverse] :
                \A i, j \in 1..n : i # j => c[i].id # c[j].id } : n \in 0..MaxCatalog }

\* messages of the errors fetch() rejects with (Chromium, Firefox)
FetchRejections == {"Failed to fetch", "NetworkError when attempting to fetch resource."}
\* message of the error response.json() rejects with on a body that is not JSON
JsonSyntaxError == "Unexpected end of JSON input"

ErrorStatuses == {404, 500}
OkStatuses == {200}

\* a client that never looks at the status
ResponseOk_Unchecked(status) == TRUE

\* Response.ok: the status is in the range 200-299
ResponseOk(status) == status \in 200..299

\* A JSON body is the record of the fields the client reads from it: detail and
\* message of an error, image_path of the fetch-and-store result, and plan, which
\* stands for the meal_plan and shopping_list of a generated meal plan.  Null is
\* a body that is not JSON.
Body(detail, message, image_path, plan) ==
    [detail |-> detail, message |-> message, image_path |-> image_path, plan |-> plan]

ErrorBodies ==
    { Null,
      Some(Body(Null, Null, Null, Null)),
      Some(Body(Some("Flyer not found"), Null, Null, Null)),
      Some(Body(Null, Some("Server error"), Null, Null)),
      Some(Body(Some("Flyer not found"), Some("Server error"), Null, Null)),
      Some(Body(Some(""), Some("Server error"), Null, Null)) }

\* the non-2xx responses: every body with status 500, and with status 404 the
\* bodies that make the client fall back on a message built from the status
ErrorResponses ==
    [status : {500}, body : ErrorBodies] \cup
    [status : ErrorStatuses, body : {Null, Some(Body(Null, Null, Null, Null))}]

ImagePaths == {"flyers/a.jpg", "flyers/b.jpg"}

MealPlans ==
    { [meal_plan |-> <<"Pasta", "Tacos", "Curry", "Soup", "Pizza">>,
       shopping_list |-> <<"Milk", "Eggs">>],
      [meal_plan |-> <<"Stew", "Salad", "Chili", "Ramen", "Burgers">>,
       shopping_list |-> <<"Rice">>] }

\* the responses of POST /api/flyer/fetch-and-store/
FetchStoreResponses ==
    ErrorResponses \cup
    [status : OkStatuses,
     body : {Null} \cup {Some(Body(Null, Some("Flyer stored"), Some(p), Null)) : p \in ImagePaths}]

\* the responses of POST /api/flyer/extract/
ExtractResponses ==
    ErrorResponses \cup
    [status : OkStatuses, body : {Null, Some(Body(Null, Some("ok"), Null, Null))}]

\* the responses of POST /api/mealplan/generate/
GenerateResponses ==
    ErrorResponses \cup
    [status : OkStatuses,
     body : {Null} \cup {Some(Body(Null, Null, Null, Some(m))) : m \in MealPlans}]

(***************************************************************************)
(* Init: the state after the first render, before the mount effect runs    *)
(***************************************************************************)
Init ==
    /\ groceryFlyers = <<>>
    /\ isFetchingFlipp = FALSE
    /\ flippError = Null
    /\ mealPlan = Null
    /\ isProcessing = FALSE
    /\ processingError = Null
    /\ processingMessage = Null
    /\ selectedFlyerId = Null
    /\ selectedFlyer = Null
    /\ loader = "unmounted"
    /\ catalogRequests = 0
    /\ sessions = <<>>
    /\ lastEvent = Event("render", 0)

(***************************************************************************)
(* Catalog loader: useEffect(() => { fetchFlippFlyers() }, [])             *)
(***************************************************************************)
\* a filter that looks at the first category tag only
IsGrocery_FirstTag(flyer) ==
    /\ flyer.categories # Null
    /\ Len(flyer.categories[1]) > 0
    /\ flyer.categories[1][1] = "Groceries"

\* flyer.categories && flyer.categories.includes("Groceries")
IsGrocery(flyer) ==
    /\ flyer.categories # Null
    /\ \E i \in 1..Len(flyer.categories[1]) : flyer.categories[1][i] = "Groceries"

\* data.flyers.filter(...)
FilterGroceries(flyers) == SelectSeq(flyers, IsGrocery)

\* err.message.toLowerCase().includes('failed to fetch'), over the messages the
\* loader's try block can throw
IncludesFailedToFetch(message) == message \in {"Failed to fetch"}

\* the catch block: the message of the error, replaced by the CORS hint
CatalogErrorMessage(message) ==
    IF IncludesFailedToFetch(message)
    THEN "Failed to fetch flyers. This might be a CORS issue. Consider using a backend proxy."
    ELSE message

\* if (filteredFlyers.length === 0) setFlippError(...): else flippError is left alone
EmptyCatalogError(filteredFlyers) ==
    IF Len(filteredFlyers) = 0
    THEN Some("No grocery flyers found for this postal code.")
    ELSE flippError

\* the effect runs after the first render: up to the await of fetch(flippUrl)
Mount ==
    /\ loader = "unmounted"
    /\ isFetchingFlipp' = TRUE
    /\ flippError' = Null
    /\ catalogRequests' = catalogRequests + 1
    /\ loader' = "await"
    /\ lastEvent' = Event("mount", 0)
    /\ UNCHANGED <<groceryFlyers, pipelineState>>

\* a 2xx response whose body parses: filter, store, finally
CatalogArrives(flyers) ==
    /\ loader = "await"
    /\ LET filteredFlyers == FilterGroceries(flyers) IN
        /\ groceryFlyers' = filteredFlyers
        /\ flippError' = EmptyCatalogError(filteredFlyers)
    /\ isFetchingFlipp' = FALSE
    /\ loader' = "done"
    /\ lastEvent' = CatalogEvent(flyers)
    /\ UNCHANGED <<catalogRequests, pipelineState>>

\* a loader that starts over when its request fails
CatalogFails_Retries(message) ==
    /\ loader = "await"
    /\ flippError' = Some(message)
    /\ isFetchingFlipp' = FALSE
    /\ loader' = "unmounted"
    /\ lastEvent' = Event("catalogError", 0)
    /\ UNCHANGED <<groceryFlyers, catalogRequests, pipelineState>>

\* fetch rejects, the status is not 2xx, or the body is not JSON: catch, finally
CatalogFails(message) ==
    /\ loader = "await"
    /\ flippError' = Some(CatalogErrorMessage(message))
    /\ isFetchingFlipp' = FALSE
    /\ loader' = "done"
    /\ lastEvent' = Event("catalogError", 0)
    /\ UNCHANGED <<groceryFlyers, catalogRequests, pipelineState>>

CatalogFailures ==
    FetchRejections \cup {JsonSyntaxError}
        \cup {"HTTP error! status: " \o ToString(st) : st \in ErrorStatuses}

(***************************************************************************)
(* Render projection                                                       *)
(***************************************************************************)
\* !isFetchingFlipp && !flippError && groceryFlyers.length > 0
GridRendered == ~isFetchingFlipp /\ ~Truthy(flippError) /\ Len(groceryFlyers) > 0

\* {flippError && <div className="error-message">}
CatalogErrorShown == Truthy(flippError)

\* {processingError && <div className="error-message">}
ProcessingErrorShown == Truthy(processingError)

\* {mealPlan && selectedFlyer && <div className="card">}
MealPlanShown == mealPlan # Null /\ selectedFlyer # Null

\* an onClick that calls the handler whatever the in-flight flag says
ClickReachesHandler_Always == TRUE

\* onClick={() => !isProcessing ? handleFlyerSelection(flyer.id) : undefined}
ClickReachesHandler == ~isProcessing

(***************************************************************************)
(* Processing orchestrator: handleFlyerSelection                           *)
(***************************************************************************)
StartingMessage == "Starting flyer processing..."
\* a stage 1 that sets no status message of its own
FetchingMessage_Unset(merchant) == StartingMessage

FetchingMessage(merchant) == "Fetching and preparing flyer for " \o merchant \o "..."
\* a stage 2 that repeats the status message of stage 1
ExtractingMessage_Repeated(merchant) == FetchingMessage(merchant)

ExtractingMessage(merchant) ==
    "Flyer ready. Extracting items from " \o merchant \o " flyer..."
GeneratingMessage(merchant) ==
    "Items extracted. Generating meal plan for " \o merchant \o "..."
CompleteMessage == "Meal plan complete!"

\* groceryFlyers.find(f => f.id === flyerId): the first match, or undefined
Find(flyers, id) ==
    LET hits == {i \in 1..Len(flyers) : flyers[i].id = id} IN
    IF hits = {} THEN Null
    ELSE Some(flyers[CHOOSE i \in hits : \A j \in hits : i <= j])

\* if (isProcessing && selectedFlyerId === flyerId) return;
AlreadyInFlight(flyerId) == isProcessing /\ selectedFlyerId = flyerId

\* a session start that leaves the previous meal plan in place
MealPlanAtStart_Kept == mealPlan

\* setMealPlan(null) when a session starts
MealPlanAtStart == Null

\* the flag cleared at the end of the try block only, not in a finally
IsProcessingAfter_TryOnly(outcome) == outcome # "success"

\* finally { setIsProcessing(false) }, whatever the outcome of the try block
IsProcessingAfter(outcome) == FALSE

\* a || b for nullable strings
OrElse(a, b) == IF Truthy(a) THEN a ELSE b

\* await response.json().catch(() => ({ message: fallback })): the parsed body, or
\* the fallback object when the body is not JSON
ErrorData(body, fallback) ==
    IF body = Null THEN [detail |-> Null, message |-> Some(fallback)] ELSE body[1]

\* stage 1: errorData.detail || errorData.message || `Failed to fetch or store ...`
FetchStoreError(resp) ==
    LET errorData == ErrorData(resp.body,
            "Fetching flyer failed with status: " \o ToString(resp.status)) IN
    OrElse(errorData.detail, OrElse(errorData.message,
        Some("Failed to fetch or store flyer. Status: " \o ToString(resp.status))))[1]

\* stage 2: errorData.detail || errorData.message || `Failed to extract items ...`
ExtractError(resp) ==
    LET errorData == ErrorData(resp.body,
            "Extraction failed with status: " \o ToString(resp.status)) IN
    OrElse(errorData.detail, OrElse(errorData.message,
        Some("Failed to extract items. Status: " \o ToString(resp.status))))[1]

\* stage 3: errorData.message || `Failed to generate meal plan ...` (no detail)
GenerateError(resp) ==
    LET errorData == ErrorData(resp.body,
            "Meal plan generation failed with status: " \o ToString(resp.status)) IN
    OrElse(errorData.message,
        Some("Failed to generate meal plan. Status: " \o ToString(resp.status)))[1]

\* a request whose form data lacks the image reference
Request_WithoutImage(stage, store, image, message) ==
    [stage |-> stage, store |-> store, image |-> Null, message |-> message]

\* a request of the pipeline: its stage, the merchant name and image path it
\* carries, and the status message set when it is issued
Request(stage, store, image, message) ==
    [stage |-> stage, store |-> store, image |-> image, message |-> message]

\* the sessions suspended at an await
ActiveSessions == {sid \in DOMAIN sessions : sessions[sid].pc # "done"}

\* the number of a new session: the least one no suspended session has
NewSid ==
    CHOOSE n \in 1..(Cardinality(ActiveSessions) + 1) :
        /\ n \notin ActiveSessions
        /\ \A m \in 1..(n - 1) : m \in ActiveSessions

\* the guards passed: the state updates of lines 118-123, the status message of
\* stage 1 and the fetch-and-store request, up to its await
StartSession(flyerId, currentFlyer) ==
    /\ processingError' = Null
    /\ processingMessage' = Some(FetchingMessage(currentFlyer.merchant))
    /\ isProcessing' = TRUE
    /\ mealPlan' = MealPlanAtStart
    /\ selectedFlyerId' = flyerId
    /\ selectedFlyer' = Some(currentFlyer)
    /\ sessions' = [sid \in ActiveSessions \cup {NewSid} |->
            IF sid \in ActiveSessions THEN sessions[sid]
            ELSE [flyer |-> currentFlyer, pc |-> "await1", seen |-> <<>>, hung |-> FALSE,
                  messages |-> <<StartingMessage, FetchingMessage(currentFlyer.merchant)>>,
                  requests |-> <<Request(1, currentFlyer.merchant, Null,
                                         FetchingMessage(currentFlyer.merchant))>>]]

\* a rejection that also resets the processing state
Reject_Resets(message) ==
    /\ processingError' = Some(message)
    /\ isProcessing' = FALSE
    /\ mealPlan' = Null
    /\ UNCHANGED <<processingMessage, selectedFlyerId, selectedFlyer, sessions>>

\* setProcessingError(message); return;
Reject(message) ==
    /\ processingError' = Some(message)
    /\ UNCHANGED <<mealPlan, isProcessing, processingMessage, selectedFlyerId,
                   selectedFlyer, sessions>>

\* handleFlyerSelection(flyerId) up to its first await or return
HandleFlyerSelection(flyerId) ==
    IF flyerId = Null
    THEN Reject("Invalid flyer ID provided.")
    ELSE LET currentFlyer == Find(groceryFlyers, flyerId[1]) IN
         IF currentFlyer = Null
         THEN Reject("Selected flyer not found in the list.")
         ELSE IF AlreadyInFlight(flyerId)
              THEN UNCHANGED pipelineState
              ELSE StartSession(flyerId, currentFlyer[1])

\* a click on the i-th card of the flyer grid
Click(i) ==
    /\ GridRendered
    /\ i \in 1..Len(groceryFlyers)
    /\ IF ClickReachesHandler
       THEN HandleFlyerSelection(Some(groceryFlyers[i].id))
       ELSE UNCHANGED pipelineState
    /\ lastEvent' = Event("click", groceryFlyers[i].id)
    /\ UNCHANGED catalogState

\* the outcome of a fetch() that rejects: no response at all
NoResponse == [status |-> 0, body |-> Null]

\* the catch and finally blocks: the session ends with the message of the error
Fail(sid, resp, message) ==
    /\ processingError' = Some(message)
    /\ isProcessing' = IsProcessingAfter("error")
    /\ sessions' = [sessions EXCEPT ![sid].pc = "done",
                                    ![sid].seen = Append(@, resp)]
    /\ UNCHANGED <<mealPlan, processingMessage, selectedFlyerId, selectedFlyer>>

Awaiting(sid, pc) ==
    /\ sid \in DOMAIN sessions
    /\ sessions[sid].pc = pc
    /\ ~sessions[sid].hung

\* fetch() of the stage the session awaits rejects (a transport failure)
RequestRejects(sid, message) ==
    /\ \E pc \in {"await1", "await2", "await3"} : Awaiting(sid, pc)
    /\ Fail(sid, NoResponse, message)
    /\ lastEvent' = Event("response", sid)
    /\ UNCHANGED catalogState

\* the fetch-and-store response arrives: lines 142-160, up to the await of extract
FetchStoreResponds(sid, resp) ==
    /\ Awaiting(sid, "await1")
    /\ IF ~ResponseOk(resp.status)
       THEN Fail(sid, resp, FetchStoreError(resp))
       ELSE IF resp.body = Null
            THEN Fail(sid, resp, JsonSyntaxError)
            ELSE LET currentFlyer == sessions[sid].flyer
                     fetchedFlyerInfo == resp.body[1] IN
                 /\ processingMessage' = Some(ExtractingMessage(currentFlyer.merchant))
                 /\ sessions' = [sessions EXCEPT
                        ![sid].pc = "await2",
                        ![sid].seen = Append(@, resp),
                        ![sid].messages = Append(@, ExtractingMessage(currentFlyer.merchant)),
                        ![sid].requests = Append(@,
                            Request(2, currentFlyer.merchant, fetchedFlyerInfo.image_path,
                                    ExtractingMessage(currentFlyer.merchant)))]
                 /\ UNCHANGED <<mealPlan, isProcessing, processingError, selectedFlyerId,
                                selectedFlyer>>
    /\ lastEvent' = Event("response", sid)
    /\ UNCHANGED catalogState

\* the extract response arrives: lines 162-181, up to the await of generate
ExtractResponds(sid, resp) ==
    /\ Awaiting(sid, "await2")
    /\ IF ~ResponseOk(resp.status)
       THEN Fail(sid, resp, ExtractError(resp))
       ELSE IF resp.body = Null
            THEN Fail(sid, resp, JsonSyntaxError)
            ELSE LET currentFlyer == sessions[sid].flyer IN
                 /\ processingMessage' = Some(GeneratingMessage(currentFlyer.merchant))
                 /\ sessions' = [sessions EXCEPT
                        ![sid].pc = "await3",
                        ![sid].seen = Append(@, resp),
                        ![sid].messages = Append(@, GeneratingMessage(currentFlyer.merchant)),
                        ![sid].requests = Append(@,
                            Request(3, currentFlyer.merchant, Null,
                                    GeneratingMessage(currentFlyer.merchant)))]
                 /\ UNCHANGED <<mealPlan, isProcessing, processingError, selectedFlyerId,
                                selectedFlyer>>
    /\ lastEvent' = Event("response", sid)
    /\ UNCHANGED catalogState

\* the generate response arrives: lines 183-198
GenerateResponds(sid, resp) ==
    /\ Awaiting(sid, "await3")
    /\ IF ~ResponseOk(resp.status)
       THEN Fail(sid, resp, GenerateError(resp))
       ELSE IF resp.body = Null
            THEN Fail(sid, resp, JsonSyntaxError)
            ELSE /\ mealPlan' = resp.body[1].plan
                 /\ processingMessage' = Some(CompleteMessage)
                 /\ isProcessing' = IsProcessingAfter("success")
                 /\ sessions' = [sessions EXCEPT
                        ![sid].pc = "done",
                        ![sid].seen = Append(@, resp),
                        ![sid].messages = Append(@, CompleteMessage)]
                 /\ UNCHANGED <<processingError, selectedFlyerId, selectedFlyer>>
    /\ lastEvent' = Event("response", sid)
    /\ UNCHANGED catalogState

\* the request the session awaits is one that never resolves
RequestHangs(sid) ==
    /\ \E pc \in {"await1", "await2", "await3"} : Awaiting(sid, pc)
    /\ sessions' = [sessions EXCEPT ![sid].hung = TRUE]
    /\ UNCHANGED <<catalogState, mealPlan, isProcessing, processingError,
                   processingMessage, selectedFlyerId, selectedFlyer, lastEvent>>

\* handleFlyerSelection called with any argument, past the onClick guard
HandlerCall(flyerId) ==
    /\ loader = "done"
    /\ HandleFlyerSelection(flyerId)
    /\ Cardinality({sid \in DOMAIN sessions' : sessions'[sid].pc # "done"}) <= MaxOverlap
    /\ lastEvent' = Event("call", IF flyerId = Null THEN 0 ELSE flyerId[1])
    /\ UNCHANGED catalogState

(***************************************************************************)
(* Specifications                                                          *)
(***************************************************************************)
Loading ==
    \/ Mount
    \/ \E flyers \in Catalogs : CatalogArrives(flyers)
    \/ \E message \in CatalogFailures : CatalogFails(message)

Responses ==
    \/ \E sid \in DOMAIN sessions, message \in FetchRejections : RequestRejects(sid, message)
    \/ \E sid \in DOMAIN sessions, resp \in FetchStoreResponses : FetchStoreResponds(sid, resp)
    \/ \E sid \in DOMAIN sessions, resp \in ExtractResponses : ExtractResponds(sid, resp)
    \/ \E sid \in DOMAIN sessions, resp \in GenerateResponses : GenerateResponds(sid, resp)
    \/ \E sid \in DOMAIN sessions : RequestHangs(sid)

\* the application: the handler is reached through the flyer cards only
Next ==
    \/ Loading
    \/ \E i \in 1..MaxCatalog : Click(i)
    \/ Responses

Spec == Init /\ [][Next]_vars

\* the handler on its own: called with any identifier, in any state
NextHandler ==
    \/ Loading
    \/ \E flyerId \in {Null} \cup {Some(id) : id \in FlyerIds} : HandlerCall(flyerId)
    \/ Responses

HandlerSpec == Init /\ [][NextHandler]_vars

\* every request is answered: it is rejected, or its response arrives
Answers ==
    \/ \E sid \in DOMAIN sessions, message \in FetchRejections : RequestRejects(sid, message)
    \/ \E sid \in DOMAIN sessions, resp \in FetchStoreResponses : FetchStoreResponds(sid, resp)
    \/ \E sid \in DOMAIN sessions, resp \in ExtractResponses : ExtractResponds(sid, resp)
    \/ \E sid \in DOMAIN sessions, resp \in GenerateResponses : GenerateResponds(sid, resp)

\* the application over a network that answers every request
NextAnswered ==
    \/ Loading
    \/ \E i \in 1..MaxCatalog : Click(i)
    \/ Answers

\* an open request does not stay open for ever: the continuation of the handler
\* runs as soon as the promise of its fetch settles
AnsweredSpec == Init /\ [][NextAnswered]_vars /\ WF_vars(Answers)

(***************************************************************************)
(* Properties                                                              *)
(***************************************************************************)
\* this step handles a click on the card of flyer id
ClickStep(id) ==
    /\ lastEvent'.type = "click"
    /\ lastEvent'.arg = id
    /\ (lastEvent.type # "click" \/ lastEvent.arg # id)

ListedIds == {groceryFlyers[i].id : i \in 1..Len(groceryFlyers)}

\* no step of this kind issues a request: no session gains one, none is created
NoRequestIssued ==
    \A sid \in DOMAIN sessions' :
        /\ sid \in DOMAIN sessions
        /\ sessions'[sid].requests = sessions[sid].requests

\* a response whose status is 2xx and whose body parsed
Successful(resp) == resp.status \in 200..299 /\ resp.body # Null

\* a response with a status outside 200-299 (a rejected fetch has none)
Non2xx(resp) == resp.status # 0 /\ resp.status \notin 200..299

\* C1: at most one session is in flight at any time, and while one is in flight a
\* click on any flyer card, of the same or of another flyer, starts no second
\* session: it issues no request and changes no state.
C1_SingleSessionInFlight ==
    /\ [](Cardinality(ActiveSessions) <= 1)
    /\ [][(ActiveSessions # {} /\ \E id \in ListedIds : ClickStep(id))
            => UNCHANGED <<catalogState, pipelineState>>]_vars

\* a click on the card of another flyer was handled while a session is in flight
C1_Witness ==
    /\ ActiveSessions # {}
    /\ lastEvent.type = "click"
    /\ selectedFlyerId # Null
    /\ lastEvent.arg # selectedFlyerId[1]

\* C2: between the start of a session for flyer f and its terminal outcome, selecting
\* f again issues none of the fetch-and-store, extract and generate requests.
C2_ReselectIssuesNothing ==
    [][\A id \in ListedIds :
          ((\E sid \in ActiveSessions : sessions[sid].flyer.id = id) /\ ClickStep(id))
            => NoRequestIssued]_vars

\* the flyer of a session that awaits its extract response was clicked again
C2_Witness ==
    \E sid \in ActiveSessions :
        /\ sessions[sid].pc = "await2"
        /\ lastEvent.type = "click"
        /\ lastEvent.arg = sessions[sid].flyer.id

\* C3: within a session the requests are issued in stage order, and the request of
\* stage N+1 is issued only after the response of stage N of the same session was
\* observed with a 2xx status and a body that parsed.
C3_StageOrder ==
    \A sid \in DOMAIN sessions :
        LET s == sessions[sid] IN
        \A k \in 1..Len(s.requests) :
            /\ s.requests[k].stage = k
            /\ k > 1 => (Len(s.seen) >= k - 1 /\ Successful(s.seen[k - 1]))

\* a session has issued all three requests
C3_Witness ==
    \E sid \in DOMAIN sessions : Len(sessions[sid].requests) = 3

\* the status texts a user is to see for a merchant: the initial one, the three
\* stage messages (fetching, extracting, generating) and the final one
StatusMessages(merchant) ==
    <<"Starting flyer processing...",
      "Fetching and preparing flyer for " \o merchant \o "...",
      "Flyer ready. Extracting items from " \o merchant \o " flyer...",
      "Items extracted. Generating meal plan for " \o merchant \o "...",
      "Meal plan complete!">>

\* seq holds a, b and c in that order
InOrder(seq, a, b, c) ==
    \E i, j, k \in 1..Len(seq) :
        i < j /\ j < k /\ seq[i] = a /\ seq[j] = b /\ seq[k] = c

\* the session ran to the end of the try block
Succeeded(s) == s.pc = "done" /\ Len(s.seen) = 3 /\ Successful(s.seen[3])

\* the session ended in the catch block
Failed(s) == s.pc = "done" /\ ~Succeeded(s)

\* C4 as stated: a session that has reached its terminal success or error state
\* has shown the fetching, extracting and generating messages, in that order.
C4_AllThreeMessagesBeforeTerminal ==
    \A sid \in DOMAIN sessions :
        LET s == sessions[sid] IN
        s.pc = "done" =>
            InOrder(s.messages, StatusMessages(s.flyer.merchant)[2],
                    StatusMessages(s.flyer.merchant)[3],
                    StatusMessages(s.flyer.merchant)[4])

\* C4 as amended: the status messages of a session are shown in pipeline order, one
\* per stage started. The messages set so far are the first n of (starting,
\* fetching, extracting, generating, complete), where a session that awaits or
\* failed at stage k has n = k + 1 and a session that succeeded has all five; the
\* message on display is the last of them.
C4_MessagesFollowStages ==
    \A sid \in DOMAIN sessions :
        LET s == sessions[sid]
            stage == Len(s.requests)
        IN  /\ stage \in 1..3
            /\ s.messages = SubSeq(StatusMessages(s.flyer.merchant), 1,
                                   IF Succeeded(s) THEN 5 ELSE stage + 1)
            /\ s.pc # "done" => stage = Len(s.seen) + 1
            /\ Failed(s) => stage = Len(s.seen)
            /\ processingMessage = Some(s.messages[Len(s.messages)])

\* a session failed at the extract stage: it never showed the generating message
C4_Witness ==
    \E sid \in DOMAIN sessions :
        /\ Failed(sessions[sid])
        /\ Len(sessions[sid].seen) = 2
        /\ Len(sessions[sid].messages) = 3

\* C5: a non-2xx response at any stage halts the session: no request of a later
\* stage is issued, the meal plan is null when the session has terminated, and
\* exactly one error message is shown, the processing error and not the catalog one.
C5_Non2xxHalts ==
    \A sid \in DOMAIN sessions :
        LET s == sessions[sid] IN
        (Len(s.seen) > 0 /\ Non2xx(s.seen[Len(s.seen)])) =>
            /\ s.pc = "done"
            /\ Len(s.requests) = Len(s.seen)
            /\ mealPlan = Null
            /\ ProcessingErrorShown
            /\ ~CatalogErrorShown

\* a session ended on a non-2xx response to its generate request
C5_Witness ==
    \E sid \in DOMAIN sessions :
        /\ Len(sessions[sid].seen) = 3
        /\ Non2xx(sessions[sid].seen[3])

\* the handler would start a session for the flyer: it is listed and not in flight
Accepted(id) ==
    /\ GridRendered
    /\ ClickReachesHandler
    /\ Find(groceryFlyers, id) # Null
    /\ ~AlreadyInFlight(Some(id))

\* every session started so far has reached its terminal outcome
AllCompleted == DOMAIN sessions # {} /\ ActiveSessions = {}

\* C6: after a completed session, whether it succeeded or failed at any stage,
\* isProcessing is false and a click on any listed flyer is accepted: it starts a
\* session that issues the fetch-and-store request for that flyer.
C6_NewSelectionAccepted ==
    /\ [](AllCompleted => (~isProcessing /\ \A id \in ListedIds : Accepted(id)))
    /\ [][\A id \in ListedIds :
            (AllCompleted /\ ClickStep(id)) =>
                \E sid \in DOMAIN sessions' :
                    /\ sessions'[sid].pc = "await1"
                    /\ sessions'[sid].flyer.id = id
                    /\ Len(sessions'[sid].requests) = 1
                    /\ sessions'[sid].requests[1].stage = 1
                    /\ isProcessing']_vars

\* a session failed at its first stage and nothing was selected since
C6_Witness ==
    /\ AllCompleted
    /\ \E sid \in DOMAIN sessions : Failed(sessions[sid]) /\ Len(sessions[sid].seen) = 1
    /\ lastEvent.type = "response"

\* the messages built from the status alone that stage may show for a non-2xx response
GenericMessages(stage, status) ==
    CASE stage = 1 -> {"Fetching flyer failed with status: " \o ToString(status),
                       "Failed to fetch or store flyer. Status: " \o ToString(status)}
      [] stage = 2 -> {"Extraction failed with status: " \o ToString(status),
                       "Failed to extract items. Status: " \o ToString(status)}
      [] stage = 3 -> {"Meal plan generation failed with status: " \o ToString(status),
                       "Failed to generate meal plan. Status: " \o ToString(status)}

\* the error that is to be shown for a non-2xx response of a stage: the detail field
\* of its body if there is one, else the message field, else a status-coded message
ShowsFirstAvailable(stage, resp) ==
    IF resp.body # Null /\ Truthy(resp.body[1].detail)
    THEN processingError = resp.body[1].detail
    ELSE IF resp.body # Null /\ Truthy(resp.body[1].message)
         THEN processingError = resp.body[1].message
         ELSE /\ processingError # Null
              /\ processingError[1] \in GenericMessages(stage, resp.status)

\* C7: at each of the three stages the error shown for a non-2xx response is the
\* first available of the detail field, the message field and a generic
\* status-coded message.
C7_FirstAvailableError ==
    \A sid \in DOMAIN sessions :
        LET s == sessions[sid] IN
        (Len(s.seen) > 0 /\ Non2xx(s.seen[Len(s.seen)])) =>
            ShowsFirstAvailable(Len(s.seen), s.seen[Len(s.seen)])

\* the same at the fetch-and-store and extract stages only
C7_FirstAvailableErrorBeforeGenerate ==
    \A sid \in DOMAIN sessions :
        LET s == sessions[sid] IN
        (Len(s.seen) \in 1..2 /\ Non2xx(s.seen[Len(s.seen)])) =>
            ShowsFirstAvailable(Len(s.seen), s.seen[Len(s.seen)])

\* the flyer carries the category tag "Groceries"
TaggedGroceries(flyer) ==
    flyer.categories # Null /\
    "Groceries" \in {flyer.categories[1][i] : i \in 1..Len(flyer.categories[1])}

\* list holds exactly the tagged flyers of catalog, in the order of catalog
IsGrocerySubsequence(list, catalog) ==
    LET tagged == {i \in 1..Len(catalog) : TaggedGroceries(catalog[i])} IN
    /\ Len(list) = Cardinality(tagged)
    /\ \A i \in tagged : list[Cardinality({j \in tagged : j <= i})] = catalog[i]

\* C8: the stored flyer list is, in the same order, exactly the flyers of the catalog
\* response whose categories include "Groceries"; once loading has finished, an
\* empty list comes with a catalog error and no flyer grid, a non-empty one with
\* the grid and no catalog error.
C8_GroceryFilter ==
    /\ lastEvent.type = "catalog" => IsGrocerySubsequence(groceryFlyers, lastEvent.flyers)
    /\ loader = "done" =>
        IF Len(groceryFlyers) = 0
        THEN CatalogErrorShown /\ ~GridRendered
        ELSE GridRendered /\ ~CatalogErrorShown

\* a catalog of two flyers arrived of which the filter kept the second only
C8_Witness ==
    /\ lastEvent.type = "catalog"
    /\ Len(lastEvent.flyers) = 2
    /\ Len(groceryFlyers) = 1
    /\ groceryFlyers[1] = lastEvent.flyers[2]

\* this step is a direct call of the handler with id (0 for null)
CallStep(id) ==
    /\ lastEvent'.type = "call"
    /\ lastEvent'.arg = id
    /\ (lastEvent.type # "call" \/ lastEvent.arg # id)

\* C9: handleFlyerSelection called with null or with an identifier that is not in
\* the loaded list sets processingError, issues no request and leaves isProcessing,
\* mealPlan, selectedFlyerId, selectedFlyer and processingMessage unchanged, whether
\* or not a session is in flight.
C9_RejectsNullAndUnknown ==
    [][\A id \in {0} \cup (FlyerIds \ ListedIds) :
          CallStep(id) =>
            /\ processingError' =
                 IF id = 0 THEN Some("Invalid flyer ID provided.")
                 ELSE Some("Selected flyer not found in the list.")
            /\ NoRequestIssued
            /\ UNCHANGED <<isProcessing, mealPlan, selectedFlyerId, selectedFlyer,
                           processingMessage, sessions>>]_vars

\* an unlisted identifier was rejected while a session is in flight
C9_Witness ==
    /\ lastEvent.type = "call"
    /\ lastEvent.arg \in FlyerIds \ ListedIds
    /\ ActiveSessions # {}
    /\ isProcessing
    /\ processingError = Some("Selected flyer not found in the list.")

\* a request of a session in flight is one that never resolves
SomeRequestHung == \E sid \in DOMAIN sessions : sessions[sid].hung

\* C10: once a stage request of the session in flight never resolves, isProcessing
\* is true in every later state, no further request is issued and no click starts
\* a new session.
C10_HungRequestBlocksForever ==
    /\ [](SomeRequestHung => (isProcessing /\ ActiveSessions # {}))
    /\ [][SomeRequestHung =>
            (SomeRequestHung' /\ isProcessing' /\ NoRequestIssued
                /\ DOMAIN sessions' = DOMAIN sessions)]_vars

\* the extract request hangs and a click on a flyer card was handled after it
C10_Witness ==
    /\ \E sid \in DOMAIN sessions : sessions[sid].hung /\ sessions[sid].pc = "await2"
    /\ lastEvent.type = "click"

\* the catalog request failed: loading is over with an error other than the one
\* of an empty result
CatalogFailed ==
    /\ loader = "done"
    /\ flippError # Null
    /\ flippError # Some("No grocery flyers found for this postal code.")

\* C11: the loader issues exactly one catalog request per page load and never
\* retries; when the request fails, flippError is a non-empty message, the flyer
\* list is empty and isFetchingFlipp is false, and from then on no session is
\* started, whatever identifier the handler is given.
C11_OneCatalogRequest ==
    /\ [](catalogRequests = IF loader = "unmounted" THEN 0 ELSE 1)
    /\ [](lastEvent.type = "catalogError" =>
            (Truthy(flippError) /\ groceryFlyers = <<>> /\ ~isFetchingFlipp))
    /\ [][CatalogFailed =>
            (CatalogFailed' /\ groceryFlyers' = <<>> /\ ~isFetchingFlipp'
                /\ DOMAIN sessions' = {} /\ ~isProcessing')]_vars

\* after the catalog request failed the handler was called with the identifier of
\* a grocery flyer, and started nothing
C11_Witness ==
    /\ CatalogFailed
    /\ lastEvent.type = "call"
    /\ lastEvent.arg = 1
    /\ DOMAIN sessions = {}
    /\ catalogRequests = 1

\* this step starts a session: a session suspended at its first request appears
SessionStarts ==
    \E sid \in DOMAIN sessions' :
        /\ sessions'[sid].pc = "await1"
        /\ sid \in DOMAIN sessions => sessions[sid].pc = "done"

\* this step handles the successful generate response of a session, and stores
\* the plan of that response
GenerateSucceeds ==
    \E sid \in DOMAIN sessions \cap DOMAIN sessions' :
        /\ sessions[sid].pc = "await3"
        /\ Succeeded(sessions'[sid])
        /\ mealPlan' = sessions'[sid].seen[3].body[1].plan

\* C12: mealPlan changes only in a step that starts a session, which sets it to
\* null, or in a step that handles a successful generate response, which sets it
\* to the plan of that response; a failed stage, a rejected selection and an
\* ignored selection leave a meal plan that is shown as it is.
C12_MealPlanChanges ==
    [][mealPlan' # mealPlan =>
          \/ SessionStarts /\ mealPlan' = Null
          \/ GenerateSucceeds]_vars

\* a selection was rejected while a meal plan is shown, and the plan is still shown
C12_Witness ==
    /\ lastEvent.type = "call"
    /\ lastEvent.arg = 0
    /\ processingError = Some("Invalid flyer ID provided.")
    /\ mealPlan \in {Some(m) : m \in MealPlans}
    /\ AllCompleted

\* the merchant of the listed flyer whose card carries the selected identifier
SelectedMerchant ==
    LET i == CHOOSE i \in 1..Len(groceryFlyers) : groceryFlyers[i].id = selectedFlyerId[1]
    IN groceryFlyers[i].merchant

\* C13: in every session the fetch-and-store, extract and generate requests carry
\* the merchant name of the flyer selected for the session, and the extract
\* request carries the image_path of the fetch-and-store response of that session.
C13_DataFlow ==
    \A sid \in DOMAIN sessions :
        LET s == sessions[sid] IN
        /\ selectedFlyerId \in {Some(id) : id \in ListedIds}
        /\ \A k \in 1..Len(s.requests) : s.requests[k].store = SelectedMerchant
        /\ Len(s.requests) >= 2 =>
              /\ s.seen[1].body[1].image_path \in {Some(p) : p \in ImagePaths}
              /\ s.requests[2].image = s.seen[1].body[1].image_path

\* a session for the Walmart flyer has issued its generate request
C13_Witness ==
    \E sid \in DOMAIN sessions :
        LET s == sessions[sid] IN
        /\ Len(s.requests) = 3
        /\ s.requests[3].store = "Walmart"
        /\ s.requests[2].image = Some("flyers/b.jpg")
        /\ selectedFlyerId = Some(2)

\* this step issues the request of stage k of session sid
Issues(sid, k) ==
    /\ sessions'[sid].pc = <<"await1", "await2", "await3">>[k]
    /\ Len(sessions'[sid].requests) = k
    /\ sid \in DOMAIN sessions => sessions[sid].pc # sessions'[sid].pc

\* C14: when the request of a stage is issued, processingMessage is the status
\* message of that stage for the merchant of the session: the fetching message at
\* the fetch-and-store request, the extracting message at the extract request and
\* the generating message at the generate request.
C14_MessageAtIssue ==
    [][\A sid \in DOMAIN sessions' : \A k \in 1..3 :
          Issues(sid, k) =>
            /\ processingMessage' =
                 Some(StatusMessages(sessions'[sid].flyer.merchant)[k + 1])
            /\ sessions'[sid].requests[k].message = processingMessage'[1]]_vars

\* the generate request of a session has just been issued under its own message
C14_Witness ==
    /\ lastEvent.type = "response"
    /\ \E sid \in DOMAIN sessions :
          /\ sessions[sid].pc = "await3"
          /\ ~sessions[sid].hung
          /\ sessions[sid].requests[3].message =
               "Items extracted. Generating meal plan for Save-On-Foods..."
    /\ processingMessage = Some("Items extracted. Generating meal plan for Save-On-Foods...")

\* this step handles a response, or a rejection, of a request of session sid
Handles(sid) ==
    /\ sid \in DOMAIN sessions'
    /\ sessions'[sid].seen # sessions[sid].seen

\* C15: no response of an earlier session is handled once a newer session has
\* started: the session whose response is handled is the only session there is,
\* the one of the selected flyer, and what is shown belongs to it. While it is in
\* flight its own last status message is shown with no error and no plan; a meal
\* plan that is displayed is the body of the generate response of the session of
\* the selected flyer.
C15_NoStaleResponse ==
    /\ [](\A sid \in DOMAIN sessions :
            LET s == sessions[sid] IN
            /\ DOMAIN sessions = {sid}
            /\ selectedFlyer = Some(s.flyer)
            /\ selectedFlyerId = Some(s.flyer.id)
            /\ s.pc # "done" =>
                  /\ isProcessing
                  /\ mealPlan = Null
                  /\ processingError = Null
                  /\ processingMessage = Some(s.messages[Len(s.messages)])
            /\ MealPlanShown =>
                  /\ Succeeded(s)
                  /\ mealPlan = s.seen[3].body[1].plan
                  /\ s.requests[3].store = selectedFlyer[1].merchant)
    /\ [](MealPlanShown => DOMAIN sessions # {})
    /\ [][\A sid \in DOMAIN sessions :
            Handles(sid) => (DOMAIN sessions = {sid} /\ DOMAIN sessions' = {sid})]_vars

\* a meal plan is displayed for the selected Walmart flyer: it is the body of the
\* generate response of the session started for that flyer
C15_Witness ==
    /\ MealPlanShown
    /\ selectedFlyer[1].merchant = "Walmart"
    /\ lastEvent.type = "response"
    /\ \E sid \in DOMAIN sessions :
          /\ Succeeded(sessions[sid])
          /\ sessions[sid].requests[3].store = "Walmart"
          /\ mealPlan = sessions[sid].seen[3].body[1].plan

\* C16: while a request of a stage has been issued and its response has not been
\* handled, be it still to come or never to come, isProcessing is true.
C16_ProcessingWhileRequestOpen ==
    \A sid \in DOMAIN sessions :
        Len(sessions[sid].requests) > Len(sessions[sid].seen) => isProcessing

\* the generate request of a session is open, after two handled responses
C16_Witness ==
    \E sid \in DOMAIN sessions :
        /\ Len(sessions[sid].requests) = 3
        /\ Len(sessions[sid].seen) = 2
        /\ ~sessions[sid].hung
        /\ isProcessing

\* C17: mealPlan and processingError are never both non-null, and when a session
\* has terminated exactly one of them is non-null: the plan after a success, the
\* error after a failure.
C17_PlanOrError ==
    /\ ~(mealPlan # Null /\ processingError # Null)
    /\ \A sid \in DOMAIN sessions :
          LET s == sessions[sid] IN
          /\ Succeeded(s) => (mealPlan # Null /\ processingError = Null)
          /\ Failed(s) => (mealPlan = Null /\ Truthy(processingError))

\* a session failed at its generate stage: its error is shown and no plan is
C17_Witness ==
    /\ \E sid \in DOMAIN sessions :
          /\ Failed(sessions[sid])
          /\ Len(sessions[sid].seen) = 3
    /\ mealPlan = Null
    /\ processingError = Some("Failed to generate meal plan. Status: 404")

\* C18: when every request that is issued is answered, every session that is
\* started terminates, with a plan or with an error, and with isProcessing false;
\* no session issues more than three requests.
C18_SessionsTerminate ==
    /\ [](\A sid \in DOMAIN sessions : Len(sessions[sid].requests) <= 3)
    /\ \A sid \in 1..MaxOverlap :
          (sid \in DOMAIN sessions /\ sessions[sid].pc # "done")
            ~> /\ sid \in DOMAIN sessions
               /\ sessions[sid].pc = "done"
               /\ ~isProcessing
               /\ mealPlan # Null \/ processingError # Null

\* a session has terminated after three answered requests, and processing is over
C18_Witness ==
    /\ ~isProcessing
    /\ lastEvent.type = "response"
    /\ \E sid \in DOMAIN sessions :
          /\ sessions[sid].pc = "done"
          /\ Len(sessions[sid].requests) = 3
          /\ Len(sessions[sid].seen) = 3

====
